---- MODULE Spec2Model ----
(***************************************************************************)
(* Shared-ledger server: the per-ledger sequence allocator, the change     *)
(* log, the access registry and the ledger lifecycle, as implemented by    *)
(* internal/service/service.go over the PostgreSQL repository              *)
(* (internal/config/database.go, package repository) and the schema of     *)
(* scripts/db_init.sql.                                                    *)
(*                                                                         *)
(* The database runs at READ COMMITTED: every statement reads the          *)
(* committed tables plus the writes of its own transaction, a write takes  *)
(* a row lock that is held until commit or rollback, and a statement that  *)
(* needs a lock held by another transaction waits (its action is           *)
(* disabled) and then acts on the rows committed at that moment.           *)
(***************************************************************************)
EXTENDS Integers, Sequences, FiniteSets, TLC

\* ------------------------------------------------------------ bounds
MaxSeq == 2         \* cap on a ledger's counter
SeqMaxSeq == 4      \* the same cap when one handler serves the requests in turn
OtherMaxSeq == 1    \* the cap of the second ledger there, and of both ledgers
                    \* when two handlers serve two ledgers

BaseMaxSeq == 3     \* the cap when a third submission overtakes a waiting one

Procs == {"p1", "p2"}    \* concurrently served requests
Users == {"u1", "u2"}    \* the registered users; a user's email is its id
Creators == {"u1"}       \* users are interchangeable: u1 creates the ledger
Emails == Users \cup {"nobody"}
Permissions == {"read", "write"}

\* ------------------------------------------------------------ state
VARIABLES
    ledgers,            \* table ledgers: set of rows [id, created_by]
    ledger_users,       \* table ledger_users: set of rows
    ledger_sequences,   \* table ledger_sequences: set of rows
    ledger_changes,     \* table ledger_changes: rows in commit order
    nextId,             \* the next ledger uuid that uuid.New() hands out
    proc,               \* per request handler: its request and position
    scope,              \* the deployment explored, fixed by the initial state:
                        \* handlers, requesting users, ledger ids, schema,
                        \* counter caps and request inputs
    answered,           \* per ledger: the assignedSequenceNumbers answered so far
    observed            \* per followed client and ledger: the
                        \* latestSequenceNumber of its last answered call

db == <<ledgers, ledger_users, ledger_sequences, ledger_changes>>
vars == <<ledgers, ledger_users, ledger_sequences, ledger_changes, nextId, proc,
          scope, answered, observed>>

\* The ledger ids (uuids) that can be generated.
LedgerIds == scope.ledgers

\* The schema the database was initialised with: "db_init.sql" has the table
\* ledger_sequences and the trigger create_ledger_sequence, "createTables" (the
\* server's own start-up) has neither.
Schemas == {"db_init.sql", "createTables"}
SequenceTable == scope.schema = "db_init.sql"

\* ------------------------------------------------------------ tables
LedgerRows(l) == {r \in ledgers : r.id = l}
LedgerExists(l) == LedgerRows(l) # {}
GrantRows(l, u) == {r \in ledger_users : r.ledger_id = l /\ r.user_id = u}
SeqRows(l) == {r \in ledger_sequences : r.ledger_id = l}
ChangeIdx(l) == {i \in DOMAIN ledger_changes : ledger_changes[i].ledger_id = l}
ChangeSeqs(l) == {ledger_changes[i].sequence_number : i \in ChangeIdx(l)}

\* ------------------------------------------------------------ requests
Idle == [op |-> "none", pc |-> "idle", user |-> "-", ledger |-> 0,
         target |-> "-", perm |-> "-", latestSeq |-> 0, seqNum |-> 0,
         exists |-> FALSE, wrote |-> {}, locks |-> {}, err |-> "nil",
         fromSeq |-> 0, toSeq |-> 0, changes |-> <<>>, lastSeen |-> 0]

Free(p) == p \in scope.procs /\ proc[p].pc = "idle"
Done(p) == proc[p].pc = "done"
InTx(p) == proc[p].pc \in {"update", "insert", "exists", "grant", "d_users",
                           "d_changes", "d_ledger", "d_cascade", "commit"}
HeldByOther(p, res) == \E q \in Procs \ {p} : res \in proc[q].locks
AnyHeldByOther(p, rs) == \E res \in rs : HeldByOther(p, res)

\* The service's errors and the response codes the API documents for them.
Code(err) ==
    CASE err = "nil" -> "OK"
      [] err \in {"no write permission", "no access", "no share permission",
                  "no delete permission"} -> "FORBIDDEN"
      [] err \in {"ledger not found", "user not found"} -> "NOT_FOUND"
      [] OTHER -> "INTERNAL"

\* The response of request r. A success of submit or latest carries its sequence
\* numbers and a share its target and whether the entry existed; after an error
\* wrote keeps the writes that the rollback discarded.
Response(r, e) ==
    [Idle EXCEPT !.op = r.op, !.pc = "done", !.user = r.user, !.ledger = r.ledger,
                 !.err = e,
                 !.target = IF r.op = "share" THEN r.target ELSE "-",
                 !.perm = IF r.op = "share" THEN r.perm ELSE "-",
                 !.exists = IF r.op = "share" /\ e = "nil" THEN r.exists ELSE FALSE,
                 !.wrote = IF e = "nil" THEN {} ELSE r.wrote,
                 !.seqNum = IF e = "nil" /\ r.op = "submit" THEN r.seqNum ELSE 0,
                 !.latestSeq = IF e = "nil" /\ r.op \in {"submit", "latest", "list"}
                               THEN r.latestSeq ELSE 0,
                 !.fromSeq = r.fromSeq, !.toSeq = r.toSeq,
                 !.changes = IF e = "nil" THEN r.changes ELSE <<>>]

\* The handler of p returns: a failed request's transaction, if any, is rolled
\* back with its locks released.
Return(p, r, e) == proc' = [proc EXCEPT ![p] = Response(r, e)]

\* ------------------------------------------------------------ access registry
\* Variant: any entry grants any access (the required permission is ignored).
CheckAnyEntry(l, u, requiredPermission) == GrantRows(l, u) # {}

\* Variant: the stored permission must equal the required one.
CheckExactPermission(l, u, requiredPermission) ==
    \E r \in GrantRows(l, u) : r.permissions = requiredPermission

\* CheckLedgerAccess: SELECT permissions ... ; no row is "no access", not an error.
CheckLedgerAccess(l, u, requiredPermission) ==
    IF GrantRows(l, u) = {} THEN FALSE
    ELSE LET permission == (CHOOSE r \in GrantRows(l, u) : TRUE).permissions
         IN  IF requiredPermission = "write" THEN permission = "write" ELSE TRUE

\* Variant: ledger_users without its primary key.
NoLedgerUsersKey(l, u) == TRUE

\* PRIMARY KEY (ledger_id, user_id) of ledger_users.
LedgerUsersKeyFree(l, u) == GrantRows(l, u) = {}

\* ------------------------------------------------------------ sequence allocator
\* Variant: the read sees the increment of a transaction in progress.
GetLatestUncommitted(l) ==
    IF SeqRows(l) = {} THEN 0
    ELSE IF \E q \in Procs : proc[q].ledger = l /\ "seq" \in proc[q].wrote
                               /\ ~Done(q)
    THEN (CHOOSE r \in SeqRows(l) : TRUE).current_sequence + 1
    ELSE (CHOOSE r \in SeqRows(l) : TRUE).current_sequence

\* GetLatestSequenceNumber: the committed counter, 0 when the row is missing.
GetLatestSequenceNumber(l) ==
    IF SeqRows(l) = {} THEN 0 ELSE (CHOOSE r \in SeqRows(l) : TRUE).current_sequence

\* Variant: the counter advances by two.
NextSequenceSkip(cur) == cur + 2

\* SET current_sequence = current_sequence + 1
NextSequence(cur) == cur + 1

\* UNIQUE (ledger_id, sequence_number) of ledger_changes.
ChangeKeyFree(l, s) == s \notin ChangeSeqs(l)

InFlightSubmits(l) ==
    {q \in Procs : proc[q].op = "submit" /\ proc[q].ledger = l /\ ~Free(q) /\ ~Done(q)}

\* ------------------------------------------------------------ submit
\* Variant: the submit's check asks for the read capability.
SubmitCheckRead(p, u, l) ==
    /\ Free(p)
    /\ GetLatestSequenceNumber(l) + Cardinality(InFlightSubmits(l)) < scope.maxSeq[l]
    /\ LET req == [Idle EXCEPT !.op = "submit", !.user = u, !.ledger = l]
       IN  IF CheckLedgerAccess(l, u, "read")
           THEN proc' = [proc EXCEPT ![p] = [req EXCEPT !.pc = "latest"]]
           ELSE Return(p, req, "no write permission")
    /\ UNCHANGED <<db, nextId, scope, answered, observed>>

\* SubmitLedgerChange, step 1: the write-capability check.
SubmitCheck(p, u, l) ==
    /\ Free(p)
    /\ GetLatestSequenceNumber(l) + Cardinality(InFlightSubmits(l)) < scope.maxSeq[l]
    /\ LET req == [Idle EXCEPT !.op = "submit", !.user = u, !.ledger = l]
       IN  IF CheckLedgerAccess(l, u, "write")
           THEN proc' = [proc EXCEPT ![p] = [req EXCEPT !.pc = "latest"]]
           ELSE Return(p, req, "no write permission")
    /\ UNCHANGED <<db, nextId, scope, answered, observed>>

\* SubmitLedgerChange, step 2: read the latest sequence number; the change is
\* built with BaseSequenceNum = latestSeq and SequenceNumber = latestSeq + 1.
SubmitLatest(p) ==
    /\ proc[p].op = "submit" /\ proc[p].pc = "latest"
    /\ LET latestSeq == GetLatestSequenceNumber(proc[p].ledger)
       IN  IF ~SequenceTable
           THEN Return(p, proc[p], "undefined table")
           ELSE proc' = [proc EXCEPT ![p].latestSeq = latestSeq,
                                     ![p].seqNum = latestSeq + 1,
                                     ![p].pc = "update"]
    /\ UNCHANGED <<db, nextId, scope, answered, observed>>

\* Variant: the UPDATE runs on the connection pool (r.db) instead of the
\* transaction, so it commits by itself and holds no lock afterwards.
UpdateSequenceAutocommit(p) ==
    /\ proc[p].op = "submit" /\ proc[p].pc = "update"
    /\ ~HeldByOther(p, <<"seq", proc[p].ledger>>)
    /\ IF SeqRows(proc[p].ledger) = {}
       THEN /\ Return(p, proc[p], "no rows")
            /\ UNCHANGED ledger_sequences
       ELSE /\ proc' = [proc EXCEPT
                   ![p].seqNum = NextSequence(GetLatestSequenceNumber(proc[p].ledger)),
                   ![p].pc = "insert"]
            /\ ledger_sequences' =
                   {IF r.ledger_id = proc[p].ledger
                    THEN [r EXCEPT !.current_sequence = NextSequence(@)] ELSE r
                    : r \in ledger_sequences}
    /\ UNCHANGED <<ledgers, ledger_users, ledger_changes, nextId, scope, answered,
                 observed>>

\* Variant: the transaction locks the table ledger_sequences (LOCK TABLE) before
\* its UPDATE, so it waits for any transaction holding any counter row.
UpdateSequenceTableLock(p) ==
    /\ proc[p].op = "submit" /\ proc[p].pc = "update"
    /\ \A l \in LedgerIds : ~HeldByOther(p, <<"seq", l>>)
    /\ IF SeqRows(proc[p].ledger) = {}
       THEN Return(p, proc[p], "no rows")
       ELSE proc' = [proc EXCEPT
                ![p].seqNum = NextSequence(GetLatestSequenceNumber(proc[p].ledger)),
                ![p].locks = @ \cup {<<"seq", proc[p].ledger>>},
                ![p].wrote = @ \cup {"seq"},
                ![p].pc = "insert"]
    /\ UNCHANGED <<db, nextId, scope, answered, observed>>

\* Variant: the UPDATE does not wait for the row lock (lock_timeout, NOWAIT): on a
\* locked counter row it fails at once.
UpdateSequenceNoWait(p) ==
    /\ proc[p].op = "submit" /\ proc[p].pc = "update"
    /\ IF HeldByOther(p, <<"seq", proc[p].ledger>>)
       THEN Return(p, proc[p], "lock not available")
       ELSE IF SeqRows(proc[p].ledger) = {}
       THEN Return(p, proc[p], "no rows")
       ELSE proc' = [proc EXCEPT
                ![p].seqNum = NextSequence(GetLatestSequenceNumber(proc[p].ledger)),
                ![p].locks = @ \cup {<<"seq", proc[p].ledger>>},
                ![p].wrote = @ \cup {"seq"},
                ![p].pc = "insert"]
    /\ UNCHANGED <<db, nextId, scope, answered, observed>>

\* Variant: the returned counter is not copied into change.SequenceNumber, so
\* the INSERT uses the number the service computed from its earlier read.
UpdateSequenceKeepsNumber(p) ==
    /\ proc[p].op = "submit" /\ proc[p].pc = "update"
    /\ ~HeldByOther(p, <<"seq", proc[p].ledger>>)
    /\ IF SeqRows(proc[p].ledger) = {}
       THEN Return(p, proc[p], "no rows")
       ELSE proc' = [proc EXCEPT
                ![p].locks = @ \cup {<<"seq", proc[p].ledger>>},
                ![p].wrote = @ \cup {"seq"},
                ![p].pc = "insert"]
    /\ UNCHANGED <<db, nextId, scope, answered, observed>>

\* AddLedgerChange: UPDATE ledger_sequences ... RETURNING current_sequence, inside
\* the transaction. It waits for the row lock; no row is sql.ErrNoRows.
UpdateSequence(p) ==
    /\ proc[p].op = "submit" /\ proc[p].pc = "update"
    /\ ~HeldByOther(p, <<"seq", proc[p].ledger>>)
    /\ IF SeqRows(proc[p].ledger) = {}
       THEN Return(p, proc[p], "no rows")
       ELSE proc' = [proc EXCEPT
                ![p].seqNum = NextSequence(GetLatestSequenceNumber(proc[p].ledger)),
                ![p].locks = @ \cup {<<"seq", proc[p].ledger>>},
                ![p].wrote = @ \cup {"seq"},
                ![p].pc = "insert"]
    /\ UNCHANGED <<db, nextId, scope, answered, observed>>

\* Variant: the INSERT runs on the connection pool (r.db) instead of the
\* transaction, so the row is committed by the statement itself.
InsertChangeAutocommit(p) ==
    /\ proc[p].op = "submit" /\ proc[p].pc = "insert"
    /\ LET l == proc[p].ledger
           s == proc[p].seqNum
       IN  /\ ~HeldByOther(p, <<"ledger", l>>)
           /\ ~HeldByOther(p, <<"ch", l, s>>)
           /\ IF ~ChangeKeyFree(l, s)
              THEN Return(p, proc[p], "unique violation") /\ UNCHANGED ledger_changes
              ELSE IF ~LedgerExists(l)
              THEN Return(p, proc[p], "foreign key violation") /\ UNCHANGED ledger_changes
              ELSE /\ proc' = [proc EXCEPT ![p].pc = "commit"]
                   /\ ledger_changes' = Append(ledger_changes,
                          [ledger_id |-> l, user_id |-> proc[p].user,
                           sequence_number |-> s,
                           base_sequence_number |-> proc[p].latestSeq])
    /\ UNCHANGED <<ledgers, ledger_users, ledger_sequences, nextId, scope, answered,
                 observed>>

\* AddLedgerChange: INSERT INTO ledger_changes with change.SequenceNumber. The
\* foreign key to ledgers takes a key-share lock on the ledger row; the unique
\* index rejects an existing (ledger_id, sequence_number).
InsertChange(p) ==
    /\ proc[p].op = "submit" /\ proc[p].pc = "insert"
    /\ LET l == proc[p].ledger
           s == proc[p].seqNum
       IN  /\ ~HeldByOther(p, <<"ledger", l>>)
           /\ ~HeldByOther(p, <<"ch", l, s>>)
           /\ IF ~ChangeKeyFree(l, s)
              THEN Return(p, proc[p], "unique violation")
              ELSE IF ~LedgerExists(l)
              THEN Return(p, proc[p], "foreign key violation")
              ELSE proc' = [proc EXCEPT
                       ![p].locks = @ \cup {<<"ks", l>>, <<"ch", l, s>>},
                       ![p].wrote = @ \cup {"change"},
                       ![p].pc = "commit"]
    /\ UNCHANGED <<db, nextId, scope, answered, observed>>

\* ------------------------------------------------------------ latest sequence
\* GetLatestSequenceNumber (service): the read-capability check.
\* The client's own record of the last latestSequenceNumber it was answered
\* (lastSeqNum in the sequence test); only the clients of scope.clients are
\* followed, and a request carries the record of the moment it was sent.
Observe(u, l, n) ==
    IF u \in scope.clients THEN [observed EXCEPT ![u][l] = n] ELSE observed

LatestCheck(p, u, l) ==
    /\ Free(p)
    /\ LET req == [Idle EXCEPT !.op = "latest", !.user = u, !.ledger = l]
       IN  IF CheckLedgerAccess(l, u, "read")
           THEN proc' = [proc EXCEPT ![p] = [req EXCEPT !.pc = "latest",
                                                        !.lastSeen = observed[u][l]]]
           ELSE Return(p, req, "no access")
    /\ UNCHANGED <<db, nextId, scope, answered, observed>>

\* Variant: the counter is read with SELECT ... FOR SHARE, which waits for a
\* transaction that has updated the row.
LatestReadForShare(p) ==
    /\ proc[p].op = "latest" /\ proc[p].pc = "latest"
    /\ ~HeldByOther(p, <<"seq", proc[p].ledger>>)
    /\ IF ~SequenceTable
       THEN Return(p, proc[p], "undefined table") /\ UNCHANGED observed
       ELSE /\ Return(p, [proc[p] EXCEPT
                     !.latestSeq = GetLatestSequenceNumber(proc[p].ledger)], "nil")
            /\ observed' = Observe(proc[p].user, proc[p].ledger,
                                   GetLatestSequenceNumber(proc[p].ledger))
    /\ UNCHANGED <<db, nextId, scope, answered>>

\* GetLatestSequenceNumber (service): the counter read and the response.
LatestRead(p) ==
    /\ proc[p].op = "latest" /\ proc[p].pc = "latest"
    /\ IF ~SequenceTable
       THEN Return(p, proc[p], "undefined table") /\ UNCHANGED observed
       ELSE /\ Return(p, [proc[p] EXCEPT
                     !.latestSeq = GetLatestSequenceNumber(proc[p].ledger)], "nil")
            /\ observed' = Observe(proc[p].user, proc[p].ledger,
                                   GetLatestSequenceNumber(proc[p].ledger))
    /\ UNCHANGED <<db, nextId, scope, answered>>

\* ------------------------------------------------------------ list changes
\* ORDER BY sequence_number ASC over the selected rows.
RECURSIVE OrderBySequenceNumber(_)
OrderBySequenceNumber(idx) ==
    IF idx = {} THEN <<>>
    ELSE LET m == CHOOSE i \in idx : \A j \in idx :
                     \/ ledger_changes[i].sequence_number
                            < ledger_changes[j].sequence_number
                     \/ /\ ledger_changes[i].sequence_number
                            = ledger_changes[j].sequence_number
                        /\ i <= j
         IN  <<ledger_changes[m]>> \o OrderBySequenceNumber(idx \ {m})

\* Variant: the upper bound is applied whatever its value.
SelectedAlwaysBounded(l, fromSeq, toSeq) ==
    {i \in ChangeIdx(l) :
        /\ ledger_changes[i].sequence_number >= fromSeq
        /\ ledger_changes[i].sequence_number <= toSeq}

\* Variant: the lower bound is exclusive.
SelectedAfterFrom(l, fromSeq, toSeq) ==
    {i \in ChangeIdx(l) :
        /\ ledger_changes[i].sequence_number > fromSeq
        /\ (toSeq > 0 => ledger_changes[i].sequence_number <= toSeq)}

\* WHERE ledger_id = $1 AND sequence_number >= $2, and AND sequence_number <= $3
\* only if toSeq > 0.
Selected(l, fromSeq, toSeq) ==
    {i \in ChangeIdx(l) :
        /\ ledger_changes[i].sequence_number >= fromSeq
        /\ (toSeq > 0 => ledger_changes[i].sequence_number <= toSeq)}

\* GetLedgerChangesBySequenceRange.
GetLedgerChangesBySequenceRange(l, fromSeq, toSeq) ==
    OrderBySequenceNumber(Selected(l, fromSeq, toSeq))

\* Variant: listing requires the write capability.
ListCheckWrite(p, u, l, fromSeq, toSeq) ==
    /\ Free(p)
    /\ LET req == [Idle EXCEPT !.op = "list", !.user = u, !.ledger = l,
                               !.fromSeq = fromSeq, !.toSeq = toSeq]
       IN  IF CheckLedgerAccess(l, u, "write")
           THEN proc' = [proc EXCEPT ![p] = [req EXCEPT !.pc = "changes"]]
           ELSE Return(p, req, "no access")
    /\ UNCHANGED <<db, nextId, scope, answered, observed>>

\* GetLedgerChanges (service): the read-capability check.
ListCheck(p, u, l, fromSeq, toSeq) ==
    /\ Free(p)
    /\ LET req == [Idle EXCEPT !.op = "list", !.user = u, !.ledger = l,
                               !.fromSeq = fromSeq, !.toSeq = toSeq]
       IN  IF CheckLedgerAccess(l, u, "read")
           THEN proc' = [proc EXCEPT ![p] = [req EXCEPT !.pc = "changes"]]
           ELSE Return(p, req, "no access")
    /\ UNCHANGED <<db, nextId, scope, answered, observed>>

\* GetLedgerChanges (service): the range query, a statement of its own.
ListChanges(p) ==
    /\ proc[p].op = "list" /\ proc[p].pc = "changes"
    /\ proc' = [proc EXCEPT
          ![p].changes = GetLedgerChangesBySequenceRange(
                             proc[p].ledger, proc[p].fromSeq, proc[p].toSeq),
          ![p].pc = "latest"]
    /\ UNCHANGED <<db, nextId, scope, answered, observed>>

\* GetLedgerChanges (service): the counter read, a later statement, and the
\* response.
ListLatest(p) ==
    /\ proc[p].op = "list" /\ proc[p].pc = "latest"
    /\ IF ~SequenceTable
       THEN Return(p, proc[p], "undefined table")
       ELSE Return(p, [proc[p] EXCEPT
                     !.latestSeq = GetLatestSequenceNumber(proc[p].ledger)], "nil")
    /\ UNCHANGED <<db, nextId, scope, answered, observed>>

\* ------------------------------------------------------------ share
\* AddUserToLedger (service): the write-capability check of the requester and
\* the lookup of the target user by email.
\* Variant: the share's check asks for the read capability.
ShareCheckRead(p, u, l, email, perm) ==
    /\ Free(p)
    /\ LET req == [Idle EXCEPT !.op = "share", !.user = u, !.ledger = l,
                               !.target = email, !.perm = perm]
       IN  IF ~CheckLedgerAccess(l, u, "read")
           THEN Return(p, req, "no share permission")
           ELSE IF email \notin Users
           THEN Return(p, req, "user not found")
           ELSE proc' = [proc EXCEPT ![p] = [req EXCEPT !.pc = "exists"]]
    /\ UNCHANGED <<db, nextId, scope, answered, observed>>

ShareCheck(p, u, l, email, perm) ==
    /\ Free(p)
    /\ LET req == [Idle EXCEPT !.op = "share", !.user = u, !.ledger = l,
                               !.target = email, !.perm = perm]
       IN  IF ~CheckLedgerAccess(l, u, "write")
           THEN Return(p, req, "no share permission")
           ELSE IF email \notin Users
           THEN Return(p, req, "user not found")
           ELSE proc' = [proc EXCEPT ![p] = [req EXCEPT !.pc = "exists"]]
    /\ UNCHANGED <<db, nextId, scope, answered, observed>>

\* addUserToLedgerTx: SELECT EXISTS(... ledger_users ...) inside the transaction.
AddUserExists(p) ==
    /\ proc[p].pc = "exists"
    /\ proc' = [proc EXCEPT
          ![p].exists = GrantRows(proc[p].ledger, proc[p].target) # {},
          ![p].pc = "grant"]
    /\ UNCHANGED <<db, nextId, scope, answered, observed>>

\* addUserToLedgerTx: UPDATE the permissions when the entry existed, INSERT it
\* otherwise. An UPDATE that finds no row any more changes nothing and is no
\* error; an INSERT fails on the primary key or on the foreign key to ledgers.
AddUserWrite(p) ==
    /\ proc[p].pc = "grant"
    /\ LET l == proc[p].ledger
           t == proc[p].target
       IN  /\ ~HeldByOther(p, <<"lu", l, t>>)
           /\ IF proc[p].exists
              THEN proc' = [proc EXCEPT
                       ![p].locks = IF GrantRows(l, t) # {}
                                    THEN @ \cup {<<"lu", l, t>>} ELSE @,
                       ![p].wrote = IF GrantRows(l, t) # {}
                                    THEN @ \cup {"grant_upd"} ELSE @,
                       ![p].pc = "commit"]
              ELSE /\ ~HeldByOther(p, <<"ledger", l>>)
                   /\ IF ~LedgerUsersKeyFree(l, t)
                      THEN Return(p, proc[p], "unique violation")
                      ELSE IF ~(LedgerExists(l) \/ "ledger" \in proc[p].wrote)
                      THEN Return(p, proc[p], "foreign key violation")
                      ELSE proc' = [proc EXCEPT
                               ![p].locks = @ \cup {<<"lu", l, t>>, <<"ks", l>>},
                               ![p].wrote = @ \cup {"grant_ins"},
                               ![p].pc = "commit"]
    /\ UNCHANGED <<db, nextId, scope, answered, observed>>

\* ------------------------------------------------------------ create
\* CreateLedger: a fresh uuid, then INSERT INTO ledgers inside the transaction;
\* the create_ledger_sequence trigger inserts the counter row with it. The
\* creator's grant follows through addUserToLedgerTx.
CreateInsertLedger(p, u) ==
    /\ Free(p)
    /\ nextId \in LedgerIds
    /\ proc' = [proc EXCEPT ![p] =
          [Idle EXCEPT !.op = "create", !.user = u, !.ledger = nextId,
                       !.target = u, !.perm = "write", !.pc = "exists",
                       !.wrote = {"ledger"}]]
    /\ nextId' = nextId + 1
    /\ UNCHANGED <<db, scope, answered, observed>>

\* ------------------------------------------------------------ delete
\* Variant: the delete is authorised by a write grant instead of ownership.
DeleteByWriteGrant(p, u, l) ==
    /\ Free(p)
    /\ LET req == [Idle EXCEPT !.op = "delete", !.user = u, !.ledger = l]
       IN  IF ~LedgerExists(l)
           THEN Return(p, req, "ledger not found")
           ELSE IF ~CheckLedgerAccess(l, u, "write")
           THEN Return(p, req, "no delete permission")
           ELSE proc' = [proc EXCEPT ![p] = [req EXCEPT !.pc = "d_users"]]
    /\ UNCHANGED <<db, nextId, scope, answered, observed>>

\* DeleteLedger (service): the ledger must exist and the requester be its creator.
DeleteGetLedger(p, u, l) ==
    /\ Free(p)
    /\ LET req == [Idle EXCEPT !.op = "delete", !.user = u, !.ledger = l]
       IN  IF ~LedgerExists(l)
           THEN Return(p, req, "ledger not found")
           ELSE IF (CHOOSE r \in LedgerRows(l) : TRUE).created_by # u
           THEN Return(p, req, "no delete permission")
           ELSE proc' = [proc EXCEPT ![p] = [req EXCEPT !.pc = "d_users"]]
    /\ UNCHANGED <<db, nextId, scope, answered, observed>>

UserKeys(l) == {<<"lu", l, r.user_id>> : r \in {x \in ledger_users : x.ledger_id = l}}
ChangeKeys(l) == {<<"ch", l, s>> : s \in ChangeSeqs(l)}
\* Variant: ledger_sequences does not reference ledgers, so no cascade reaches it.
SeqKeysNoCascade(l) == {}
SeqKeys(l) == IF SeqRows(l) = {} THEN {} ELSE {<<"seq", l>>}

\* DeleteLedger (repository): DELETE FROM ledger_users WHERE ledger_id = $1.
DeleteUsers(p) ==
    /\ proc[p].pc = "d_users"
    /\ ~AnyHeldByOther(p, UserKeys(proc[p].ledger))
    /\ proc' = [proc EXCEPT ![p].locks = @ \cup UserKeys(proc[p].ledger),
                            ![p].pc = "d_changes"]
    /\ UNCHANGED <<db, nextId, scope, answered, observed>>

\* DeleteLedger (repository): DELETE FROM ledger_changes WHERE ledger_id = $1.
DeleteChanges(p) ==
    /\ proc[p].pc = "d_changes"
    /\ ~AnyHeldByOther(p, ChangeKeys(proc[p].ledger))
    /\ proc' = [proc EXCEPT ![p].locks = @ \cup ChangeKeys(proc[p].ledger),
                            ![p].pc = "d_ledger"]
    /\ UNCHANGED <<db, nextId, scope, answered, observed>>

\* DeleteLedger (repository): DELETE FROM ledgers WHERE id = $1 locks the ledger
\* row, which waits for the key-share locks of inserts that reference it. No row
\* is no error.
DeleteLedgerRow(p) ==
    /\ proc[p].pc = "d_ledger"
    /\ LET l == proc[p].ledger
       IN  IF ~LedgerExists(l)
           THEN proc' = [proc EXCEPT ![p].pc = "commit"]
           ELSE /\ ~AnyHeldByOther(p, {<<"ks", l>>, <<"ledger", l>>})
                /\ proc' = [proc EXCEPT ![p].locks = @ \cup {<<"ledger", l>>},
                                        ![p].pc = "d_cascade"]
    /\ UNCHANGED <<db, nextId, scope, answered, observed>>

\* ON DELETE CASCADE of ledger_users, ledger_changes and ledger_sequences: the
\* referencing rows committed by now are deleted with the ledger row.
DeleteCascade(p) ==
    /\ proc[p].pc = "d_cascade"
    /\ LET l == proc[p].ledger
           rows == UserKeys(l) \cup ChangeKeys(l) \cup SeqKeys(l)
       IN  /\ ~AnyHeldByOther(p, rows)
           /\ proc' = [proc EXCEPT ![p].locks = @ \cup rows, ![p].pc = "commit"]
    /\ UNCHANGED <<db, nextId, scope, answered, observed>>

\* ------------------------------------------------------------ commit, rollback
Deleted(p, key) == proc[p].op = "delete" /\ key \in proc[p].locks

LedgersAfter(p) ==
    IF "ledger" \in proc[p].wrote
    THEN ledgers \cup {[id |-> proc[p].ledger, created_by |-> proc[p].user]}
    ELSE {r \in ledgers : ~Deleted(p, <<"ledger", r.id>>)}

\* Variant: the counter is set to the number the service computed beforehand.
SequencesAfterPreassigned(p) ==
    IF "ledger" \in proc[p].wrote
    THEN ledger_sequences \cup {[ledger_id |-> proc[p].ledger, current_sequence |-> 0]}
    ELSE IF "seq" \in proc[p].wrote
    THEN {IF r.ledger_id = proc[p].ledger
          THEN [r EXCEPT !.current_sequence = proc[p].latestSeq + 1] ELSE r
          : r \in ledger_sequences}
    ELSE {r \in ledger_sequences : ~Deleted(p, <<"seq", r.ledger_id>>)}

\* Variant: the UPDATE of the counter lacks its WHERE clause, so it increments
\* the counter of every ledger.
SequencesAfterEveryLedger(p) ==
    IF "ledger" \in proc[p].wrote
    THEN ledger_sequences \cup {[ledger_id |-> proc[p].ledger, current_sequence |-> 0]}
    ELSE IF "seq" \in proc[p].wrote
    THEN {IF r.ledger_id = proc[p].ledger
          THEN [r EXCEPT !.current_sequence = proc[p].seqNum]
          ELSE [r EXCEPT !.current_sequence = @ + 1]
          : r \in ledger_sequences}
    ELSE {r \in ledger_sequences : ~Deleted(p, <<"seq", r.ledger_id>>)}

SequencesAfter(p) ==
    IF "ledger" \in proc[p].wrote
    THEN IF SequenceTable
         THEN ledger_sequences
                 \cup {[ledger_id |-> proc[p].ledger, current_sequence |-> 0]}
         ELSE ledger_sequences
    ELSE IF "seq" \in proc[p].wrote
    THEN {IF r.ledger_id = proc[p].ledger
          THEN [r EXCEPT !.current_sequence = proc[p].seqNum] ELSE r
          : r \in ledger_sequences}
    ELSE {r \in ledger_sequences : ~Deleted(p, <<"seq", r.ledger_id>>)}

\* Variant: the UPDATE's WHERE clause lacks the user, so it rewrites every
\* entry of the ledger.
UsersAfterEveryUser(p) ==
    IF "grant_ins" \in proc[p].wrote
    THEN ledger_users \cup {[ledger_id |-> proc[p].ledger, user_id |-> proc[p].target,
                            permissions |-> proc[p].perm]}
    ELSE IF "grant_upd" \in proc[p].wrote
    THEN {IF r.ledger_id = proc[p].ledger
          THEN [r EXCEPT !.permissions = proc[p].perm] ELSE r
          : r \in ledger_users}
    ELSE {r \in ledger_users : ~Deleted(p, <<"lu", r.ledger_id, r.user_id>>)}

\* Variant: the new entry replaces the entries of the ledger (a DELETE of the
\* ledger's entries before the INSERT).
UsersAfterReplaceEntries(p) ==
    IF "grant_ins" \in proc[p].wrote
    THEN {r \in ledger_users : r.ledger_id # proc[p].ledger}
            \cup {[ledger_id |-> proc[p].ledger, user_id |-> proc[p].target,
                   permissions |-> proc[p].perm]}
    ELSE IF "grant_upd" \in proc[p].wrote
    THEN {IF r.ledger_id = proc[p].ledger /\ r.user_id = proc[p].target
          THEN [r EXCEPT !.permissions = proc[p].perm] ELSE r
          : r \in ledger_users}
    ELSE {r \in ledger_users : ~Deleted(p, <<"lu", r.ledger_id, r.user_id>>)}

\* Variant: the UPDATE of an existing entry stores "read" whatever was asked.
UsersAfterUpdateRead(p) ==
    IF "grant_ins" \in proc[p].wrote
    THEN ledger_users \cup {[ledger_id |-> proc[p].ledger, user_id |-> proc[p].target,
                            permissions |-> proc[p].perm]}
    ELSE IF "grant_upd" \in proc[p].wrote
    THEN {IF r.ledger_id = proc[p].ledger /\ r.user_id = proc[p].target
          THEN [r EXCEPT !.permissions = "read"] ELSE r
          : r \in ledger_users}
    ELSE {r \in ledger_users : ~Deleted(p, <<"lu", r.ledger_id, r.user_id>>)}

UsersAfter(p) ==
    IF "grant_ins" \in proc[p].wrote
    THEN ledger_users \cup {[ledger_id |-> proc[p].ledger, user_id |-> proc[p].target,
                            permissions |-> proc[p].perm]}
    ELSE IF "grant_upd" \in proc[p].wrote
    THEN {IF r.ledger_id = proc[p].ledger /\ r.user_id = proc[p].target
          THEN [r EXCEPT !.permissions = proc[p].perm] ELSE r
          : r \in ledger_users}
    ELSE {r \in ledger_users : ~Deleted(p, <<"lu", r.ledger_id, r.user_id>>)}

\* Variant: the INSERT binds the sequence number and the base in swapped order.
ChangeRowSwapped(p) ==
    [ledger_id |-> proc[p].ledger, user_id |-> proc[p].user,
     sequence_number |-> proc[p].latestSeq, base_sequence_number |-> proc[p].seqNum]

\* Variant: the INSERT binds the sequence number also as the base.
ChangeRowBaseIsNumber(p) ==
    [ledger_id |-> proc[p].ledger, user_id |-> proc[p].user,
     sequence_number |-> proc[p].seqNum, base_sequence_number |-> proc[p].seqNum]

\* Variant: the base is recomputed inside the transaction as the predecessor of
\* the number just allocated.
ChangeRowBaseInTx(p) ==
    [ledger_id |-> proc[p].ledger, user_id |-> proc[p].user,
     sequence_number |-> proc[p].seqNum, base_sequence_number |-> proc[p].seqNum - 1]

ChangeRow(p) ==
    [ledger_id |-> proc[p].ledger, user_id |-> proc[p].user,
     sequence_number |-> proc[p].seqNum, base_sequence_number |-> proc[p].latestSeq]

Undeleted(p, r) == ~Deleted(p, <<"ch", r.ledger_id, r.sequence_number>>)

ChangesAfter(p) ==
    IF "change" \in proc[p].wrote
    THEN Append(ledger_changes, ChangeRow(p))
    ELSE SelectSeq(ledger_changes, LAMBDA r : Undeleted(p, r))

\* Variant: the response carries the number the service computed beforehand.
AssignedPreassigned(p) == proc[p].latestSeq + 1

\* LedgerChangeResponse.AssignedSequenceNumber: change.SequenceNumber, which
\* AddLedgerChange has overwritten through the pointer.
AssignedSequenceNumber(p) == proc[p].seqNum

\* tx.Commit(): the writes of the transaction become visible together and its
\* locks are released; the handler returns its success response.
Commit(p) ==
    /\ proc[p].pc = "commit"
    /\ ledgers' = LedgersAfter(p)
    /\ ledger_sequences' = SequencesAfter(p)
    /\ ledger_users' = UsersAfter(p)
    /\ ledger_changes' = ChangesAfter(p)
    /\ Return(p, [proc[p] EXCEPT !.seqNum = AssignedSequenceNumber(p)], "nil")
    /\ answered' = IF proc[p].op = "submit"
                   THEN [answered EXCEPT ![proc[p].ledger] =
                            Append(@, AssignedSequenceNumber(p))]
                   ELSE answered
    /\ UNCHANGED <<nextId, scope, observed>>

\* A transaction that fails or whose context is cancelled (a failed statement, a
\* failed commit, a deadlock victim) is rolled back; the handler returns the error.
Abort(p) ==
    /\ InTx(p)
    /\ Return(p, proc[p], "aborted")
    /\ UNCHANGED <<db, nextId, scope, answered, observed>>

\* The response has been written and the handler's goroutine ends.
Finish(p) ==
    /\ Done(p)
    /\ proc' = [proc EXCEPT ![p] = Idle]
    /\ UNCHANGED <<db, nextId, scope, answered, observed>>

Init ==
    /\ ledgers = {}
    /\ ledger_users = {}
    /\ ledger_sequences = {}
    /\ ledger_changes = <<>>
    /\ nextId = 1
    /\ proc = [p \in Procs |-> Idle]
    /\ scope = [procs |-> Procs, users |-> Users, ledgers |-> {1},
                emails |-> Emails, clients |-> {},
                schema |-> "db_init.sql",
                maxSeq |-> [l \in {1} |-> MaxSeq],
                fromSeqs |-> {0}, toSeqs |-> {0}]
    /\ answered = [l \in LedgerIds |-> <<>>]
    /\ observed = [u \in Users |-> [l \in LedgerIds |-> 0]]

Next ==
    \E p \in Procs :
        \/ \E u \in Creators : CreateInsertLedger(p, u)
        \/ \E u \in scope.users, l \in LedgerIds : DeleteGetLedger(p, u, l)
        \/ DeleteUsers(p)
        \/ DeleteChanges(p)
        \/ DeleteLedgerRow(p)
        \/ DeleteCascade(p)
        \/ \E u \in scope.users, l \in LedgerIds : SubmitCheck(p, u, l)
        \/ SubmitLatest(p)
        \/ UpdateSequence(p)
        \/ InsertChange(p)
        \/ \E u \in scope.users, l \in LedgerIds : LatestCheck(p, u, l)
        \/ LatestRead(p)
        \/ \E u \in scope.users, l \in LedgerIds, f \in scope.fromSeqs, t \in scope.toSeqs :
              ListCheck(p, u, l, f, t)
        \/ ListChanges(p)
        \/ ListLatest(p)
        \/ \E u \in scope.users, l \in LedgerIds, e \in scope.emails, c \in Permissions :
              ShareCheck(p, u, l, e, c)
        \/ AddUserExists(p)
        \/ AddUserWrite(p)
        \/ Commit(p)
        \/ Abort(p)
        \/ Finish(p)

Spec == Init /\ [][Next]_vars

\* The steps a handler takes by itself once its request has started: the
\* goroutine is scheduled and the database runs a statement that is not blocked.
\* A cancellation or failure (Abort) and the arrival of a request are not owed.
\* The fairness is strong: PostgreSQL queues the waiters of a row lock, so a
\* statement whose lock is released again and again is not passed over for ever.
Step(p) ==
    \/ DeleteUsers(p)
    \/ DeleteChanges(p)
    \/ DeleteLedgerRow(p)
    \/ DeleteCascade(p)
    \/ SubmitLatest(p)
    \/ UpdateSequence(p)
    \/ InsertChange(p)
    \/ LatestRead(p)
    \/ ListChanges(p)
    \/ ListLatest(p)
    \/ AddUserExists(p)
    \/ AddUserWrite(p)
    \/ Commit(p)
    \/ Finish(p)

Fairness == \A p \in Procs : SF_vars(Step(p))

\* The concurrent deployment under fair scheduling of the handlers.
SpecFair == Init /\ [][Next]_vars /\ Fairness

\* One handler serving requests one after the other, on two ledgers, with
\* every range of a query.
InitSeq ==
    /\ ledgers = {}
    /\ ledger_users = {}
    /\ ledger_sequences = {}
    /\ ledger_changes = <<>>
    /\ nextId = 1
    /\ proc = [p \in Procs |-> Idle]
    /\ scope = [procs |-> {"p1"}, users |-> Creators, ledgers |-> {1, 2},
                emails |-> Emails, clients |-> {},
                schema |-> "db_init.sql",
                maxSeq |-> [l \in {1, 2} |-> IF l = 1 THEN SeqMaxSeq ELSE OtherMaxSeq],
                fromSeqs |-> 0..(SeqMaxSeq + 1), toSeqs |-> (-1)..SeqMaxSeq]
    /\ answered = [l \in LedgerIds |-> <<>>]
    /\ observed = [u \in Users |-> [l \in LedgerIds |-> 0]]

SpecSeq == InitSeq /\ [][Next]_vars

\* The concurrent deployment on a database initialised either by
\* scripts/db_init.sql or by the server's createTables.
InitSchemas ==
    /\ ledgers = {}
    /\ ledger_users = {}
    /\ ledger_sequences = {}
    /\ ledger_changes = <<>>
    /\ nextId = 1
    /\ proc = [p \in Procs |-> Idle]
    /\ \E schema \in Schemas :
          scope = [procs |-> Procs, users |-> Users, ledgers |-> {1},
                   emails |-> Emails, clients |-> {},
                   schema |-> schema,
                   maxSeq |-> [l \in {1} |-> MaxSeq],
                   fromSeqs |-> {0}, toSeqs |-> {0}]
    /\ answered = [l \in LedgerIds |-> <<>>]
    /\ observed = [u \in Users |-> [l \in LedgerIds |-> 0]]

SpecSchemas == InitSchemas /\ [][Next]_vars

\* Two handlers serving the creator's requests on two ledgers.
InitTwo ==
    /\ ledgers = {}
    /\ ledger_users = {}
    /\ ledger_sequences = {}
    /\ ledger_changes = <<>>
    /\ nextId = 1
    /\ proc = [p \in Procs |-> Idle]
    /\ scope = [procs |-> Procs, users |-> Creators, ledgers |-> {1, 2},
                emails |-> Users \ Creators, clients |-> {},
                schema |-> "db_init.sql",
                maxSeq |-> [l \in {1, 2} |-> OtherMaxSeq],
                fromSeqs |-> {0}, toSeqs |-> {0}]
    /\ answered = [l \in LedgerIds |-> <<>>]
    /\ observed = [u \in Users |-> [l \in LedgerIds |-> 0]]

SpecTwo == InitTwo /\ [][Next]_vars

\* Two handlers serving the creator's requests on one ledger that takes three
\* changes.
InitBase ==
    /\ ledgers = {}
    /\ ledger_users = {}
    /\ ledger_sequences = {}
    /\ ledger_changes = <<>>
    /\ nextId = 1
    /\ proc = [p \in Procs |-> Idle]
    /\ scope = [procs |-> Procs, users |-> Creators, ledgers |-> {1},
                emails |-> Users \ Creators, clients |-> {},
                schema |-> "db_init.sql",
                maxSeq |-> [l \in {1} |-> BaseMaxSeq],
                fromSeqs |-> {0}, toSeqs |-> {0}]
    /\ answered = [l \in LedgerIds |-> <<>>]
    /\ observed = [u \in Users |-> [l \in LedgerIds |-> 0]]

SpecBase == InitBase /\ [][Next]_vars

\* The deployment of Init with the creator's latestSequence answers followed.
InitClient ==
    /\ ledgers = {}
    /\ ledger_users = {}
    /\ ledger_sequences = {}
    /\ ledger_changes = <<>>
    /\ nextId = 1
    /\ proc = [p \in Procs |-> Idle]
    /\ scope = [procs |-> Procs, users |-> Users, ledgers |-> {1},
                emails |-> Emails, clients |-> Creators,
                schema |-> "db_init.sql",
                maxSeq |-> [l \in {1} |-> MaxSeq],
                fromSeqs |-> {0}, toSeqs |-> {0}]
    /\ answered = [l \in LedgerIds |-> <<>>]
    /\ observed = [u \in Users |-> [l \in LedgerIds |-> 0]]

SpecClient == InitClient /\ [][Next]_vars

\* ------------------------------------------------------------ properties
HasGrant(l, u, c) ==
    \E r \in ledger_users : r.ledger_id = l /\ r.user_id = u /\ r.permissions = c
Dominates(stored, required) ==
    stored = "write" \/ (stored = "read" /\ required = "read")
Starts(p, op) == Free(p) /\ proc'[p].op = op
Commits(p, op) ==
    /\ proc[p].op = op /\ proc[p].pc = "commit"
    /\ proc'[p].pc = "done" /\ proc'[p].err = "nil"
Answered(p, op, e) == Done(p) /\ proc[p].op = op /\ proc[p].err = e
Counter(l) == GetLatestSequenceNumber(l)

\* C1: for every existing ledger the persisted sequence numbers are exactly
\* 1..N, N the committed counter of the ledger: no gap and no duplicate.
GapFree ==
    \A l \in LedgerIds :
        LedgerExists(l) =>
            /\ Cardinality(SeqRows(l)) = 1
            /\ ChangeSeqs(l) = 1..Counter(l)
            /\ Cardinality(ChangeIdx(l)) = Counter(l)

\* C1 witness: the counter reached MaxSeq although a submission was rolled back
\* after its increment.
GapFreeWitness ==
    \E l \in LedgerIds, p \in Procs :
        /\ LedgerExists(l) /\ Counter(l) = MaxSeq
        /\ Answered(p, "submit", "aborted")
        /\ proc[p].ledger = l /\ "seq" \in proc[p].wrote

\* C2: the assignedSequenceNumbers answered for one ledger are pairwise distinct
\* and form a block of consecutive integers.
DistinctContiguousAnswers ==
    \A l \in LedgerIds :
        LET a == answered[l]
            nums == {a[i] : i \in DOMAIN a}
        IN  /\ \A i, j \in DOMAIN a : i # j => a[i] # a[j]
            /\ \A x, y \in nums : \A z \in x..y : z \in nums

\* C2 witness: two submissions that both read the base 0, so that they were in
\* flight together, have both been answered successfully.
ConcurrentAnswersWitness ==
    \E l \in LedgerIds :
        /\ Len(answered[l]) = 2
        /\ \A p \in Procs :
              /\ Answered(p, "submit", "nil")
              /\ proc[p].ledger = l /\ proc[p].latestSeq = 0

\* C3: allocate+append is atomic. A step of a submission's transaction other than
\* its successful commit (the increment, the insert, a failure, a cancellation)
\* leaves the committed tables as they were, and no committed state has a counter
\* whose latest number has no change row.
AbortLeavesNoTrace ==
    /\ [][\A p \in Procs :
             (/\ proc[p].op = "submit" /\ InTx(p)
              /\ proc'[p] # proc[p]
              /\ ~Commits(p, "submit")) => UNCHANGED db]_vars
    /\ [](\A l \in LedgerIds :
             (LedgerExists(l) /\ Counter(l) > 0) => Counter(l) \in ChangeSeqs(l))

\* C3 witness: a submission was rolled back after its increment and its insert,
\* and the counter still equals the number of change rows.
AbortWitness ==
    \E p \in Procs :
        /\ Answered(p, "submit", "aborted")
        /\ {"seq", "change"} \subseteq proc[p].wrote
        /\ LedgerExists(proc[p].ledger)
        /\ Counter(proc[p].ledger) = Cardinality(ChangeIdx(proc[p].ledger))

\* C4: while a ledger exists every step changes its counter by 0 or by +1, and by
\* +1 exactly when a submission to that ledger commits.
CounterSteps ==
    [][\A l \in LedgerIds :
          (LedgerExists(l) /\ LedgerExists(l)') =>
              /\ Counter(l)' \in {Counter(l), Counter(l) + 1}
              /\ (Counter(l)' = Counter(l) + 1) <=>
                    (\E p \in Procs : Commits(p, "submit") /\ proc[p].ledger = l)]_vars

\* C4 witness: a committed submission has taken the counter to MaxSeq.
CounterStepsWitness ==
    \E p \in Procs :
        /\ Answered(p, "submit", "nil")
        /\ proc[p].seqNum = MaxSeq
        /\ Counter(proc[p].ledger) = MaxSeq

\* C5: the assignedSequenceNumber of a committing submission is the sequence
\* number of the change row this commit adds and the counter value its increment
\* produced; it is not latestSeq + 1 when the counter moved after the base read.
AssignedIsCommitted ==
    [][\A p \in Procs :
          Commits(p, "submit") =>
              LET l == proc[p].ledger
                  n == Len(ledger_changes')
              IN  /\ n = Len(ledger_changes) + 1
                  /\ ledger_changes'[n].ledger_id = l
                  /\ ledger_changes'[n].user_id = proc[p].user
                  /\ ledger_changes'[n].sequence_number = proc'[p].seqNum
                  /\ proc'[p].seqNum = Counter(l) + 1
                  /\ proc'[p].seqNum = Counter(l)'
                  /\ (Counter(l) # proc[p].latestSeq =>
                          proc'[p].seqNum # proc[p].latestSeq + 1)]_vars

\* C5 witness: an answered number that is not the base read plus one.
AssignedWitness ==
    \E p \in Procs :
        /\ Answered(p, "submit", "nil")
        /\ proc[p].seqNum > proc[p].latestSeq + 1
        /\ \E i \in ChangeIdx(proc[p].ledger) :
              /\ ledger_changes[i].sequence_number = proc[p].seqNum
              /\ ledger_changes[i].base_sequence_number = proc[p].latestSeq

\* C6: for the changes of one ledger the commit order is the sequence order, and
\* so is the order in which the numbers were answered.
CommitOrderIsSequenceOrder ==
    /\ \A i, j \in DOMAIN ledger_changes :
          (i < j /\ ledger_changes[i].ledger_id = ledger_changes[j].ledger_id) =>
              ledger_changes[i].sequence_number < ledger_changes[j].sequence_number
    /\ \A l \in LedgerIds : \A i, j \in DOMAIN answered[l] :
          i < j => answered[l][i] < answered[l][j]

\* C6 witness: the second change was submitted after the first was answered (its
\* base is the first one's number), by another user.
CommitOrderWitness ==
    /\ Len(ledger_changes) = 2
    /\ ledger_changes[1].ledger_id = ledger_changes[2].ledger_id
    /\ ledger_changes[1].user_id # ledger_changes[2].user_id
    /\ ledger_changes[2].base_sequence_number = ledger_changes[1].sequence_number

\* C7: a submit by a user without a write grant on the ledger is answered
\* Forbidden at once and changes no table.
ForbiddenSubmit ==
    [][\A p \in Procs :
          (/\ Starts(p, "submit")
           /\ ~HasGrant(proc'[p].ledger, proc'[p].user, "write")) =>
              /\ proc'[p].pc = "done"
              /\ Code(proc'[p].err) = "FORBIDDEN"
              /\ proc'[p].wrote = {} /\ proc'[p].locks = {}
              /\ UNCHANGED db]_vars

\* C7 witness: a read-only grantee's submit has been answered Forbidden.
ForbiddenSubmitWitness ==
    \E p \in Procs :
        /\ Answered(p, "submit", "no write permission")
        /\ HasGrant(proc[p].ledger, proc[p].user, "read")
        /\ Counter(proc[p].ledger) = Cardinality(ChangeIdx(proc[p].ledger))

\* C8: check(ledger, user, required) is true exactly when a grant exists for the
\* pair and its capability dominates required; no grant is false.
CheckIsDominance ==
    \A l \in LedgerIds, u \in Users, required \in Permissions :
        CheckLedgerAccess(l, u, required) <=>
            \E r \in GrantRows(l, u) : Dominates(r.permissions, required)

\* C8 witness: with a read-only grantee and a writer on one ledger, a read check
\* of the read-only grantee has passed and a write check of theirs has failed.
CheckWitness ==
    \E p, q \in Procs, u, w \in Users :
        /\ HasGrant(proc[p].ledger, u, "read")
        /\ HasGrant(proc[p].ledger, w, "write")
        /\ Answered(p, "latest", "nil") /\ proc[p].user = u
        /\ Answered(q, "submit", "no write permission") /\ proc[q].user = u
        /\ proc[q].ledger = proc[p].ledger

\* C9: there is at most one grant per (ledger, user); a committing grant for a
\* pair that has one overwrites its capability; and a submit is rejected with
\* Forbidden exactly while the submitter's grant is not write.
UniqueGrantOverwrite ==
    /\ [](\A l \in LedgerIds, u \in Users : Cardinality(GrantRows(l, u)) <= 1)
    /\ [][\A p \in Procs :
             /\ (Commits(p, "share") /\ GrantRows(proc[p].ledger, proc[p].target) # {})
                   => GrantRows(proc[p].ledger, proc[p].target)' =
                         {[ledger_id |-> proc[p].ledger, user_id |-> proc[p].target,
                           permissions |-> proc[p].perm]}
             /\ Starts(p, "submit") =>
                   ((Code(proc'[p].err) = "FORBIDDEN") <=>
                       ~HasGrant(proc'[p].ledger, proc'[p].user, "write"))]_vars

\* C9 witness: an existing grant was re-issued as write and its grantee, who is
\* not the creator, has then had a submit committed.
RegrantWitness ==
    \E p, q \in Procs :
        /\ Answered(p, "share", "nil")
        /\ proc[p].exists /\ proc[p].perm = "write"
        /\ proc[p].target \notin Creators
        /\ Answered(q, "submit", "nil")
        /\ proc[q].user = proc[p].target /\ proc[q].ledger = proc[p].ledger

\* C10: grant is idempotent. A committing grant whose entry is already stored
\* with the requested capability leaves the registry unchanged, and the write of
\* a grant whose entry existed does not fail.
GrantIdempotent ==
    [][\A p \in Procs :
          /\ (/\ Commits(p, "share")
              /\ HasGrant(proc[p].ledger, proc[p].target, proc[p].perm))
                => ledger_users' = ledger_users
          /\ (/\ proc[p].op = "share" /\ proc[p].pc = "grant" /\ proc[p].exists
              /\ proc'[p] # proc[p])
                => (proc'[p].pc = "commit" \/ proc'[p].err = "aborted")]_vars

\* C10 witness: the same grant has been applied twice, the first time inserting
\* the entry and the second time finding it.
GrantTwiceWitness ==
    \E p, q \in Procs :
        /\ Answered(p, "share", "nil") /\ ~proc[p].exists
        /\ Answered(q, "share", "nil") /\ proc[q].exists
        /\ proc[p].target = proc[q].target /\ proc[p].perm = proc[q].perm
        /\ proc[p].ledger = proc[q].ledger
        /\ HasGrant(proc[p].ledger, proc[p].target, proc[p].perm)

\* C11: a grant for an existing ledger and an existing user never fails, two
\* concurrent first grants for one pair included: no share whose ledger exists
\* is answered with a constraint violation of its write.
GrantNeverFails ==
    \A p \in Procs :
        (/\ Done(p) /\ proc[p].op = "share"
         /\ proc[p].target \in Users
         /\ LedgerExists(proc[p].ledger))
            => proc[p].err \notin {"unique violation", "foreign key violation"}

\* The range query of p runs in this step.
Queries(p) ==
    /\ proc[p].op = "list" /\ proc[p].pc = "changes"
    /\ proc'[p].op = "list" /\ proc'[p].pc = "latest"
InRange(r, l, fromSeq, toSeq) ==
    /\ r.ledger_id = l
    /\ fromSeq <= r.sequence_number /\ r.sequence_number <= toSeq

\* C12: a range query with an upper bound (toSeq > 0, which is how the query is
\* told that a bound was supplied) returns exactly the persisted changes of the
\* ledger with fromSeq <= sequence number <= toSeq, each once, in ascending
\* order, and no change of another ledger.
RangeQueryExact ==
    [][\A p \in Procs :
          (Queries(p) /\ proc[p].toSeq > 0) =>
              LET c == proc'[p].changes
                  l == proc[p].ledger
                  f == proc[p].fromSeq
                  t == proc[p].toSeq
              IN  /\ \A k \in DOMAIN c :
                        /\ InRange(c[k], l, f, t)
                        /\ \E i \in DOMAIN ledger_changes : ledger_changes[i] = c[k]
                  /\ \A i \in DOMAIN ledger_changes :
                        InRange(ledger_changes[i], l, f, t) =>
                            \E k \in DOMAIN c : c[k] = ledger_changes[i]
                  /\ \A j, k \in DOMAIN c :
                        j < k => c[j].sequence_number < c[k].sequence_number]_vars

\* C12 witness: after four submissions to a ledger, and with a change in
\* another ledger, from = 2, to = 3 has returned the changes 2 and 3.
RangeQueryWitness ==
    \E p \in Procs :
        /\ Answered(p, "list", "nil")
        /\ proc[p].fromSeq = 2 /\ proc[p].toSeq = 3
        /\ Counter(proc[p].ledger) = 4
        /\ Len(proc[p].changes) = 2
        /\ proc[p].changes[1].sequence_number = 2
        /\ proc[p].changes[2].sequence_number = 3
        /\ \E i \in DOMAIN ledger_changes :
              ledger_changes[i].ledger_id # proc[p].ledger

\* C13: an empty range yields the empty sequence: a range query whose toSeq is
\* below its fromSeq (0 and negative values of toSeq included), or whose fromSeq
\* is above the latest sequence number, returns no changes.
EmptyRangeIsEmpty ==
    [][\A p \in Procs :
          (/\ Queries(p)
           /\ \/ proc[p].toSeq < proc[p].fromSeq
              \/ proc[p].fromSeq > Counter(proc[p].ledger))
              => proc'[p].changes = <<>>]_vars

\* C14: latestSequence answers the committed counter of the ledger, which is the
\* number of its committed submissions (0 when there is none); an increment
\* made inside a transaction that has not committed is not counted.
LatestIsCommitted ==
    [][\A p \in Procs :
          (/\ proc[p].op = "latest" /\ proc[p].pc = "latest"
           /\ proc'[p].pc = "done"
           /\ LedgerExists(proc[p].ledger))
              => /\ proc'[p].err = "nil"
                 /\ proc'[p].latestSeq = Cardinality(ChangeIdx(proc[p].ledger))
                 /\ proc'[p].latestSeq = Len(answered[proc[p].ledger])]_vars

\* C14 witness: latestSequence has answered 1 and the counter is 1 while a
\* submission holds the uncommitted increment to 2.
LatestWitness ==
    \E p, q \in Procs :
        /\ Answered(p, "latest", "nil") /\ proc[p].latestSeq = 1
        /\ Counter(proc[p].ledger) = 1
        /\ proc[q].op = "submit" /\ proc[q].ledger = proc[p].ledger
        /\ proc[q].pc = "commit" /\ "seq" \in proc[q].wrote /\ proc[q].seqNum = 2

\* C15: with requests served one after the other, the k-th successful submission
\* to a ledger is assigned k, latestSequence then answers k, and listChanges
\* from 0 without an upper bound returns the k changes 1..k in ascending order.
SequentialScenario ==
    \A p \in Procs :
        LET l == proc[p].ledger
            k == Len(answered[l])
        IN  /\ Answered(p, "submit", "nil") =>
                  /\ proc[p].seqNum = k
                  /\ \A i \in 1..k : answered[l][i] = i
            /\ (Answered(p, "latest", "nil") /\ LedgerExists(l)) =>
                  proc[p].latestSeq = k
            /\ (Answered(p, "list", "nil") /\ LedgerExists(l)
                  /\ proc[p].fromSeq = 0 /\ proc[p].toSeq = 0) =>
                  /\ Len(proc[p].changes) = k
                  /\ \A i \in 1..k :
                        /\ proc[p].changes[i].sequence_number = i
                        /\ proc[p].changes[i].ledger_id = l
                  /\ proc[p].latestSeq = k

\* C15 witness: after four submissions, listChanges from 0 has returned the
\* four changes and the latest sequence number 4.
SequentialWitness ==
    \E p \in Procs :
        /\ Answered(p, "list", "nil")
        /\ proc[p].fromSeq = 0 /\ proc[p].toSeq = 0
        /\ Len(answered[proc[p].ledger]) = 4
        /\ Len(proc[p].changes) = 4
        /\ proc[p].changes[4].sequence_number = 4
        /\ proc[p].latestSeq = 4

\* C16: create is atomic: a committed ledger row always has its sequence counter
\* and the grant written for its creator, and the three appear in one commit.
CreateIsAtomic ==
    /\ \A l \in LedgerIds :
          LedgerExists(l) =>
              /\ SeqRows(l) # {}
              /\ \E r \in LedgerRows(l) : GrantRows(l, r.created_by) # {}
    /\ \A l \in LedgerIds :
          ~LedgerExists(l) => (SeqRows(l) = {} /\ \A u \in Users : GrantRows(l, u) = {})

\* C17: a delete goes ahead only for the ledger's creator: it is answered
\* NotFound when the ledger does not exist and Forbidden when the requester is
\* not the creator, a write grant notwithstanding, and a refused delete removes
\* nothing.
DeleteOnlyByCreator ==
    [][\A p \in Procs :
          Starts(p, "delete") =>
              LET l == proc'[p].ledger
                  u == proc'[p].user
              IN  /\ ~LedgerExists(l) =>
                        /\ proc'[p].pc = "done"
                        /\ Code(proc'[p].err) = "NOT_FOUND"
                  /\ (LedgerExists(l) /\ \A r \in LedgerRows(l) : r.created_by # u) =>
                        /\ proc'[p].pc = "done"
                        /\ Code(proc'[p].err) = "FORBIDDEN"
                  /\ proc'[p].pc # "done" =>
                        \E r \in LedgerRows(l) : r.created_by = u
                  /\ proc'[p].locks = {} /\ proc'[p].wrote = {}
                  /\ UNCHANGED db]_vars

\* C17 witness: a user holding a write grant who is not the creator has been
\* refused the delete, and the ledger, its counter and a change are still there.
DeleteRefusedWitness ==
    \E p \in Procs :
        /\ Answered(p, "delete", "no delete permission")
        /\ HasGrant(proc[p].ledger, proc[p].user, "write")
        /\ LedgerExists(proc[p].ledger)
        /\ Counter(proc[p].ledger) = 1
        /\ ChangeSeqs(proc[p].ledger) = {1}

\* C18: a delete removes the grants, the change rows, the counter and the ledger
\* row of its ledger in one commit: no step of a delete before its commit, and
\* no failed delete, changes the committed tables; its commit leaves nothing of
\* the ledger; and no committed state holds only part of a ledger.
DeleteIsAtomic ==
    /\ [][\A p \in Procs :
             /\ (/\ proc[p].op = "delete" /\ InTx(p)
                 /\ proc'[p] # proc[p]
                 /\ ~Commits(p, "delete")) => UNCHANGED db
             /\ Commits(p, "delete") =>
                   LET l == proc[p].ledger
                   IN  /\ ~LedgerExists(l)'
                       /\ SeqRows(l)' = {}
                       /\ ChangeIdx(l)' = {}
                       /\ \A u \in Users : GrantRows(l, u)' = {}]_vars
    /\ [](\A l \in LedgerIds :
             ~LedgerExists(l) =>
                 /\ SeqRows(l) = {} /\ ChangeIdx(l) = {}
                 /\ \A u \in Users : GrantRows(l, u) = {})

\* C18 witness: a delete has committed on a ledger that had two grants and
\* MaxSeq changes, and nothing of the ledger is left.
DeleteWitness ==
    \E p, q \in Procs :
        /\ Answered(p, "delete", "nil")
        /\ Len(answered[proc[p].ledger]) = MaxSeq
        /\ Answered(q, "share", "nil") /\ proc[q].ledger = proc[p].ledger
        /\ proc[q].target # proc[p].user
        /\ ledgers = {} /\ ledger_users = {} /\ ledger_sequences = {}
        /\ ledger_changes = <<>>

\* C19: once a ledger has been deleted, a listChanges on its id, by any user, is
\* answered NotFound.
ListAfterDeleteNotFound ==
    [][\A p \in Procs :
          (/\ Starts(p, "list")
           /\ ~LedgerExists(proc'[p].ledger)
           /\ \E q \in Procs : /\ Answered(q, "delete", "nil")
                               /\ proc[q].ledger = proc'[p].ledger)
              => Code(proc'[p].err) = "NOT_FOUND"]_vars

ChangesOf(l) == SelectSeq(ledger_changes, LAMBDA r : r.ledger_id = l)
Addressed(p) == IF proc[p].op = "none" THEN proc'[p] ELSE proc[p]

\* C20: isolation across ledgers: a step of a submit, a share or a delete
\* addressed to one ledger leaves the counter, the change rows and the grants
\* of every other ledger unchanged.
LedgerIsolation ==
    [][\A p \in Procs :
          (/\ proc'[p] # proc[p]
           /\ Addressed(p).op \in {"submit", "share", "delete"}) =>
              \A b \in LedgerIds \ {Addressed(p).ledger} :
                  /\ SeqRows(b)' = SeqRows(b)
                  /\ ChangesOf(b)' = ChangesOf(b)
                  /\ \A u \in Users : GrantRows(b, u)' = GrantRows(b, u)
                  /\ LedgerRows(b)' = LedgerRows(b)]_vars

\* C20 witness: a submission to one ledger has committed while a submission to
\* the other ledger held its uncommitted increment, and the other ledger's
\* counter is still 0.
IsolationWitness ==
    \E p, q \in Procs :
        /\ Answered(p, "submit", "nil") /\ Counter(proc[p].ledger) = 1
        /\ proc[q].op = "submit" /\ proc[q].pc = "commit"
        /\ proc[q].ledger # proc[p].ledger
        /\ LedgerExists(proc[q].ledger) /\ Counter(proc[q].ledger) = 0
        /\ ChangesOf(proc[q].ledger) = <<>>

HoldsCounter(p, l) ==
    /\ proc[p].op = "submit" /\ proc[p].ledger = l
    /\ proc[p].pc \in {"insert", "commit"} /\ <<"seq", l>> \in proc[p].locks

\* C21: there is no cross-ledger lock: while a submission holds the counter row
\* of its ledger in its open transaction, a submission to a different ledger
\* can take each of its steps (the increment, the append, the commit) at once.
NoCrossLedgerLock ==
    \A p \in Procs, q \in Procs :
        (/\ p # q
         /\ HoldsCounter(p, proc[p].ledger)
         /\ proc[q].op = "submit" /\ proc[q].ledger # proc[p].ledger) =>
            /\ proc[q].pc = "update" => ENABLED UpdateSequence(q)
            /\ proc[q].pc = "insert" => ENABLED InsertChange(q)
            /\ proc[q].pc = "commit" => ENABLED Commit(q)

\* C21 witness: two submissions to different ledgers hold the counter rows of
\* their ledgers at the same time, neither committed, and one of them has
\* appended its change and can commit.
ParallelLedgersWitness ==
    \E p, q \in Procs :
        /\ HoldsCounter(p, proc[p].ledger) /\ proc[p].pc = "insert"
        /\ HoldsCounter(q, proc[q].ledger) /\ proc[q].pc = "commit"
        /\ proc[q].ledger # proc[p].ledger
        /\ "change" \in proc[q].wrote
        /\ ENABLED Commit(q)

Submitting(p) ==
    proc[p].op = "submit" /\ proc[p].pc \in {"latest", "update", "insert", "commit"}
Deleting(l) ==
    \E q \in Procs : proc[q].op = "delete" /\ proc[q].ledger = l /\ InTx(q)

\* C22: concurrent submits to one ledger wait at the increment instead of
\* failing. No submit is answered with an error of contention (a lock that is
\* not available, a duplicate sequence number); an error other than a
\* cancellation is answered only when the ledger's counter or row is gone; the
\* numbers answered are pairwise distinct; and under fair scheduling a
\* submission that has passed its capability check is answered, successfully
\* unless it is cancelled or the ledger is being deleted.
SubmitsWaitAndCommit ==
    /\ [](\A p \in Procs :
             (Done(p) /\ proc[p].op = "submit") =>
                 /\ proc[p].err \in {"nil", "aborted", "no write permission",
                                     "no rows", "foreign key violation"}
                 /\ proc[p].err \in {"no rows", "foreign key violation"} =>
                        ~LedgerExists(proc[p].ledger))
    /\ [](\A l \in LedgerIds : \A i, j \in DOMAIN answered[l] :
             i # j => answered[l][i] # answered[l][j])
    /\ \A p \in Procs :
          Submitting(p) ~>
              \/ Answered(p, "submit", "nil")
              \/ Answered(p, "submit", "aborted")
              \/ Deleting(proc[p].ledger)
              \/ ~LedgerExists(proc[p].ledger)

\* C22 witness: a submission waited for the counter row held by another one (it
\* read the base 0 and was assigned 2) and both have been answered successfully,
\* with the numbers 1 and 2.
WaitedAndCommittedWitness ==
    \E p, q \in Procs :
        /\ Answered(p, "submit", "nil") /\ proc[p].seqNum = 1
        /\ Answered(q, "submit", "nil") /\ proc[q].seqNum = 2
        /\ proc[q].latestSeq = 0
        /\ proc[p].ledger = proc[q].ledger
        /\ answered[proc[p].ledger] = <<1, 2>>

OpenSubmit(p, l) ==
    /\ proc[p].op = "submit" /\ proc[p].ledger = l
    /\ proc[p].pc \in {"insert", "commit"} /\ proc[p].locks # {}
Reading(q, l) ==
    /\ proc[q].op \in {"list", "latest"} /\ proc[q].ledger = l
    /\ proc[q].pc \in {"changes", "latest"}

\* C23: reads neither wait for an in-flight submission nor make one wait. While
\* a submission's transaction is open on a ledger, each pending statement of a
\* read of that ledger can run at once, the read holds no lock and the
\* submission can take its next step; the statements of a read return committed
\* rows only and the committed counter.
ReadsDoNotBlock ==
    /\ [](\A p \in Procs, q \in Procs :
             (p # q /\ OpenSubmit(p, proc[p].ledger) /\ Reading(q, proc[p].ledger)) =>
                 /\ proc[q].locks = {}
                 /\ (proc[q].op = "list" /\ proc[q].pc = "changes")
                        => ENABLED ListChanges(q)
                 /\ (proc[q].op = "list" /\ proc[q].pc = "latest")
                        => ENABLED ListLatest(q)
                 /\ proc[q].op = "latest" => ENABLED LatestRead(q)
                 /\ proc[p].pc = "insert" => ENABLED InsertChange(p)
                 /\ proc[p].pc = "commit" => ENABLED Commit(p))
    /\ [][\A q \in Procs :
             /\ Queries(q) =>
                   \A k \in DOMAIN proc'[q].changes :
                       \E i \in DOMAIN ledger_changes :
                           ledger_changes[i] = proc'[q].changes[k]
             /\ (/\ proc[q].op \in {"list", "latest"} /\ proc[q].pc = "latest"
                 /\ proc'[q].pc = "done" /\ LedgerExists(proc[q].ledger))
                   => /\ proc'[q].err = "nil"
                      /\ proc'[q].latestSeq = Counter(proc[q].ledger)
                      /\ UNCHANGED db]_vars

\* C23 witness: while a submission holds its uncommitted increment to 2 and its
\* appended change, a listChanges of the ledger has returned the one committed
\* change and can read the counter, and the
\* submission can still commit.
ReadDuringSubmitWitness ==
    \E p, q \in Procs :
        /\ OpenSubmit(p, proc[p].ledger) /\ proc[p].pc = "commit"
        /\ proc[p].seqNum = 2 /\ {"seq", "change"} \subseteq proc[p].wrote
        /\ proc[q].op = "list" /\ proc[q].pc = "latest"
        /\ proc[q].ledger = proc[p].ledger
        /\ Len(proc[q].changes) = 1 /\ proc[q].changes[1].sequence_number = 1
        /\ Counter(proc[p].ledger) = 1
        /\ ENABLED ListLatest(q) /\ ENABLED Commit(p)

Reads == {"list", "latest"}

\* C24: listChanges and latestSequence go ahead exactly when the caller has a
\* grant (read or write) on the ledger and are answered Forbidden otherwise; one
\* that went ahead is answered successfully; and no step of either changes a
\* table, takes a lock or hands out a number.
ReadsNeedReadAndChangeNothing ==
    [][\A p \in Procs :
          /\ (\E op \in Reads : Starts(p, op)) =>
                LET l == proc'[p].ledger
                    u == proc'[p].user
                IN  /\ (HasGrant(l, u, "read") \/ HasGrant(l, u, "write"))
                          <=> proc'[p].pc # "done"
                    /\ proc'[p].pc = "done" => Code(proc'[p].err) = "FORBIDDEN"
          /\ (proc[p].op \in Reads /\ ~Done(p) /\ proc'[p].pc = "done")
                => proc'[p].err = "nil"
          /\ (proc'[p] # proc[p] /\ Addressed(p).op \in Reads) =>
                /\ UNCHANGED <<db, nextId, answered>>
                /\ proc'[p].locks = {} /\ proc'[p].wrote = {}]_vars

\* C24 witness: a user was refused latestSequence while holding no grant and,
\* once granted read, has had listChanges answered with the ledger's change;
\* the counter and the change are as the submission left them.
ReadOnlyListsWitness ==
    \E p, q \in Procs :
        /\ Answered(q, "latest", "no access")
        /\ Answered(p, "list", "nil") /\ proc[p].user = proc[q].user
        /\ proc[p].ledger = proc[q].ledger
        /\ HasGrant(proc[p].ledger, proc[p].user, "read")
        /\ Len(proc[p].changes) = 1 /\ proc[p].latestSeq = 1
        /\ Counter(proc[p].ledger) = 1 /\ ChangeSeqs(proc[p].ledger) = {1}

\* C25: a share goes ahead only when the requester holds write on the ledger
\* and the target email belongs to a user: it is answered Forbidden when the
\* requester has a read grant or none, and NotFound when no user has the email,
\* and a share so refused changes no table. A share that is answered
\* successfully leaves the target with the requested capability on the ledger.
ShareChecksAndGrants ==
    [][\A p \in Procs :
          /\ Starts(p, "share") =>
                LET l == proc'[p].ledger
                    u == proc'[p].user
                    refused == proc'[p].pc = "done"
                IN  /\ ~HasGrant(l, u, "write") =>
                          refused /\ Code(proc'[p].err) = "FORBIDDEN"
                    /\ (HasGrant(l, u, "write") /\ proc'[p].target \notin Users) =>
                          refused /\ Code(proc'[p].err) = "NOT_FOUND"
                    /\ ~refused =>
                          HasGrant(l, u, "write") /\ proc'[p].target \in Users
                    /\ proc'[p].locks = {} /\ proc'[p].wrote = {}
                    /\ UNCHANGED db
          /\ Commits(p, "share") =>
                GrantRows(proc[p].ledger, proc[p].target)' =
                    {[ledger_id |-> proc[p].ledger, user_id |-> proc[p].target,
                      permissions |-> proc[p].perm]}]_vars

\* C26: every persisted change has a base sequence number that is at least 0
\* and strictly below its own sequence number, whatever the interleaving of
\* the submissions.
BaseBelowSequence ==
    \A i \in DOMAIN ledger_changes :
        /\ 0 <= ledger_changes[i].base_sequence_number
        /\ ledger_changes[i].base_sequence_number < ledger_changes[i].sequence_number

\* C26 witness: two submissions read the base 0 together; their changes are
\* persisted with the numbers 1 and MaxSeq, both with the base 0.
BaseBelowWitness ==
    \E i, j \in DOMAIN ledger_changes :
        /\ ledger_changes[i].ledger_id = ledger_changes[j].ledger_id
        /\ ledger_changes[i].base_sequence_number = 0
        /\ ledger_changes[i].sequence_number = 1
        /\ ledger_changes[j].base_sequence_number = 0
        /\ ledger_changes[j].sequence_number = MaxSeq

\* C27: in ascending order of sequence number the base sequence numbers of a
\* ledger's changes do not decrease, concurrent submissions included.
BaseNonDecreasing ==
    \A i, j \in DOMAIN ledger_changes :
        (/\ ledger_changes[i].ledger_id = ledger_changes[j].ledger_id
         /\ ledger_changes[i].sequence_number < ledger_changes[j].sequence_number)
            => ledger_changes[i].base_sequence_number
                   <= ledger_changes[j].base_sequence_number

\* C28: grants are never deleted by themselves: a step after which a pair
\* (ledger, user) that had a grant has none is the commit of a delete of that
\* ledger, which removes the ledger too; no step of a submit, a share or a read
\* removes a grant.
GrantsOnlyDieWithLedger ==
    [][\A l \in LedgerIds, u \in Users :
          (GrantRows(l, u) # {} /\ GrantRows(l, u)' = {}) =>
              /\ \E p \in Procs : Commits(p, "delete") /\ proc[p].ledger = l
              /\ ~LedgerExists(l)'
              /\ \A p \in Procs :
                    proc'[p] # proc[p] =>
                        Addressed(p).op \notin {"submit", "share", "list", "latest"}]_vars

\* C28 witness: after a share that found the target's entry and changed it,
\* and a committed submission, the creator and the target both have their grant
\* on the ledger, which holds a change.
GrantsKeptWitness ==
    \E p, q \in Procs :
        /\ Answered(p, "share", "nil") /\ proc[p].exists
        /\ ~HasGrant(proc[p].ledger, proc[p].target, "write")
        /\ Answered(q, "submit", "nil") /\ proc[q].ledger = proc[p].ledger
        /\ \A u \in Users : GrantRows(proc[p].ledger, u) # {}
        /\ ChangeIdx(proc[p].ledger) # {}

Appending(p) == proc[p].op = "submit" /\ proc[p].pc = "insert"

\* C29: the uniqueness rejection on (ledger, sequence number) is unreachable:
\* whenever a submission is about to run its INSERT, no change row with its
\* ledger and number exists, committed or written by a transaction in progress,
\* and no submit is answered with a unique violation.
ConflictUnreachable ==
    /\ \A p \in Procs :
          Appending(p) =>
              /\ ChangeKeyFree(proc[p].ledger, proc[p].seqNum)
              /\ ~HeldByOther(p, <<"ch", proc[p].ledger, proc[p].seqNum>>)
    /\ \A p \in Procs :
          (Done(p) /\ proc[p].op = "submit") => proc[p].err # "unique violation"

\* C29 witness: a submission has appended the number 2 although the number it
\* computed from its read, 1, is in the log by then.
ConflictAvoidedWitness ==
    \E p \in Procs :
        /\ proc[p].op = "submit" /\ proc[p].pc = "commit"
        /\ "change" \in proc[p].wrote
        /\ proc[p].latestSeq = 0 /\ proc[p].seqNum = 2
        /\ ChangeSeqs(proc[p].ledger) = {1}

Committed(l) == Len(answered[l])

\* C30: the base of a persisted change is the committed counter at the
\* submitter's read, which runs before and outside the allocating transaction:
\* the read returns the number of submissions committed so far and holds no
\* lock; the allocation returns the number committed by then plus one, so the
\* number is base + 1 exactly when no submission to the ledger committed in
\* between; and the row persisted carries the base that was read. (The read
\* of a ledger deleted meanwhile returns 0; its submission persists nothing.)
BaseIsEarlierRead ==
    [][\A p \in Procs :
          LET l == proc[p].ledger
          IN  /\ (/\ proc[p].op = "submit" /\ proc[p].pc = "latest"
                  /\ proc'[p].pc = "update" /\ LedgerExists(l)) =>
                     /\ proc'[p].latestSeq = Committed(l)
                     /\ proc'[p].locks = {} /\ proc'[p].wrote = {}
              /\ (/\ proc[p].op = "submit" /\ proc[p].pc = "update"
                  /\ proc'[p].pc = "insert") =>
                     /\ proc'[p].seqNum = Committed(l) + 1
                     /\ proc'[p].latestSeq = proc[p].latestSeq
                     /\ (proc'[p].seqNum - 1 = proc[p].latestSeq)
                            <=> (Committed(l) = proc[p].latestSeq)
              /\ Commits(p, "submit") =>
                     LET n == Len(ledger_changes')
                     IN  /\ n = Len(ledger_changes) + 1
                         /\ ledger_changes'[n].base_sequence_number = proc[p].latestSeq
                         /\ ledger_changes'[n].sequence_number = proc[p].seqNum
                         /\ proc[p].latestSeq <= Committed(l)]_vars

\* C30 witness: a persisted change whose base is below its number minus one,
\* in a ledger whose committed numbers are 1..counter without a gap.
StaleBaseWitness ==
    \E i \in DOMAIN ledger_changes :
        LET l == ledger_changes[i].ledger_id
        IN  /\ ledger_changes[i].base_sequence_number
                  < ledger_changes[i].sequence_number - 1
            /\ LedgerExists(l)
            /\ ChangeSeqs(l) = 1..Counter(l)
            /\ Cardinality(ChangeIdx(l)) = Counter(l)

\* C31: an allocation for a ledger whose counter row does not exist (the ledger
\* was deleted after the submitter's check and base read) is answered NotFound,
\* and the failed submission adds no change row and creates no counter.
AllocateMissingIsNotFound ==
    [][\A p \in Procs :
          (/\ proc[p].op = "submit" /\ proc[p].pc = "update"
           /\ SeqRows(proc[p].ledger) = {}
           /\ proc'[p] # proc[p] /\ proc'[p].err # "aborted") =>
              /\ proc'[p].pc = "done"
              /\ Code(proc'[p].err) = "NOT_FOUND"
              /\ UNCHANGED db]_vars

\* C32: referential integrity in every committed state: every change row,
\* grant and counter belongs to a ledger that exists and every existing ledger
\* has exactly one counter; and a submit or a share that races with the delete
\* of its ledger either commits while the ledger exists, all its rows then
\* being removed by the delete, or is answered with an error, leaving nothing.
IntegrityUnderDelete ==
    /\ [](/\ \A i \in DOMAIN ledger_changes : LedgerExists(ledger_changes[i].ledger_id)
          /\ \A r \in ledger_users : LedgerExists(r.ledger_id)
          /\ \A r \in ledger_sequences : LedgerExists(r.ledger_id)
          /\ \A l \in LedgerIds : LedgerExists(l) => Cardinality(SeqRows(l)) = 1)
    /\ [][\A p \in Procs :
             /\ (\E op \in {"submit", "share"} : Commits(p, op)) =>
                   LedgerExists(proc[p].ledger) /\ LedgerExists(proc[p].ledger)'
             /\ (/\ proc[p].op \in {"submit", "share"} /\ ~Done(p)
                 /\ proc'[p].pc = "done" /\ proc'[p].err # "nil") =>
                   UNCHANGED db]_vars

\* C33: every change is committed by an author who holds the write capability
\* on the ledger when the submission's transaction commits; a user whose grant
\* was overwritten from write to read after the access check gets no change
\* committed.
AuthorHoldsWriteAtCommit ==
    [][\A p \in Procs :
          Commits(p, "submit") =>
              HasGrant(proc[p].ledger, proc[p].user, "write")]_vars

\* C33, as amended: every change is committed by an author who held the write
\* capability on the ledger when the submission's access check ran. A
\* submission enters its later steps only through a check that found a write
\* grant, keeps its author and ledger from then on, and persists its row under
\* that author; an overwrite of the grant after the check does not stop it.
AuthorHeldWriteAtCheck ==
    [][\A p \in Procs :
          /\ (proc'[p].op = "submit" /\ proc'[p].pc = "latest"
                /\ ~(proc[p].op = "submit" /\ proc[p].pc = "latest")) =>
                /\ Free(p)
                /\ HasGrant(proc'[p].ledger, proc'[p].user, "write")
          /\ (proc[p].op = "submit" /\ ~Done(p) /\ proc'[p].op = "submit") =>
                /\ proc'[p].user = proc[p].user
                /\ proc'[p].ledger = proc[p].ledger
          /\ (proc'[p].op = "submit" /\ proc'[p].pc \in {"update", "insert", "commit"}) =>
                proc[p].op = "submit"
                    /\ proc[p].pc \in {"latest", "update", "insert", "commit"}
          /\ Commits(p, "submit") =>
                ledger_changes'[Len(ledger_changes')].user_id = proc[p].user]_vars

\* C33 witness: a submission that has appended its change is about to commit
\* while its author's grant, write at the check, has been overwritten to read.
DowngradedAuthorWitness ==
    \E p \in Procs :
        /\ proc[p].op = "submit" /\ proc[p].pc = "commit"
        /\ "change" \in proc[p].wrote
        /\ HasGrant(proc[p].ledger, proc[p].user, "read")
        /\ proc[p].user \notin Creators
        /\ ENABLED Commit(p)

\* C34: in every successful listChanges response each returned change has a
\* sequence number that is at most the latestSequenceNumber of the same
\* response, with concurrent submissions and a concurrent delete of the ledger.
ListedWithinLatest ==
    \A p \in Procs :
        Answered(p, "list", "nil") =>
            \A k \in DOMAIN proc[p].changes :
                proc[p].changes[k].sequence_number <= proc[p].latestSeq

\* C35: the latestSequenceNumber answered to a successful latestSequence call
\* is never below the one the same client was last answered for that ledger
\* before it sent the call, whatever submissions and deletions run meanwhile.
SuccessiveLatestNonDecreasing ==
    [][\A p \in Procs :
          (/\ proc[p].op = "latest" /\ proc[p].pc = "latest"
           /\ Answered(p, "latest", "nil")') =>
              proc'[p].latestSeq >= proc[p].lastSeen]_vars

\* C36 (as stated): in every reachable state the creator of every existing
\* ledger holds the write capability on it.
CreatorHoldsWrite ==
    \A r \in ledgers : HasGrant(r.id, r.created_by, "write")

\* C36, as amended: the creator of an existing ledger always holds a grant; the
\* grant is write when the ledger is created, and it stops being write only
\* when a share request that names the creator with capability read commits.
CreatorWriteUntilSharedRead ==
    /\ [](\A r \in ledgers : GrantRows(r.id, r.created_by) # {})
    /\ [][/\ \A r \in ledgers' \ ledgers : HasGrant(r.id, r.created_by, "write")'
          /\ \A r \in ledgers \cap ledgers' :
                (/\ HasGrant(r.id, r.created_by, "write")
                 /\ ~HasGrant(r.id, r.created_by, "write")') =>
                    \E p \in Procs :
                        /\ Commits(p, "share")
                        /\ proc[p].ledger = r.id
                        /\ proc[p].target = r.created_by
                        /\ proc[p].perm = "read"]_vars

\* A ledger exists whose creator holds the read capability only.
ReadOnlyCreatorWitness ==
    \E r \in ledgers : HasGrant(r.id, r.created_by, "read")

\* C37: a submit, share or delete request sent by a user who is not the
\* ledger's creator and holds no write grant on it is answered at once with
\* Forbidden or NotFound and changes no table; listChanges and latestSequence
\* requests change no table at any of their steps.
NoPrivilegeEscalation ==
    [][\A p \in Procs :
          LET u == proc'[p].user
              l == proc'[p].ledger
          IN  /\ (/\ \E op \in {"submit", "share", "delete"} : Starts(p, op)
                  /\ ~HasGrant(l, u, "write")
                  /\ ~\E r \in ledgers : r.id = l /\ r.created_by = u) =>
                     /\ proc'[p].pc = "done"
                     /\ Code(proc'[p].err) \in {"FORBIDDEN", "NOT_FOUND"}
                     /\ UNCHANGED db
              /\ (proc'[p].op \in {"list", "latest"} /\ proc'[p] # proc[p]) =>
                     UNCHANGED db]_vars

\* A read-only grantee who is not the creator has been refused a share of an
\* existing ledger.
RefusedReaderWitness ==
    \E p \in Procs :
        /\ Answered(p, "share", "no share permission")
        /\ HasGrant(proc[p].ledger, proc[p].user, "read")
        /\ \E r \in ledgers : r.id = proc[p].ledger /\ r.created_by # proc[p].user

\* C38: a delete reports success only when its commit removed the ledger; a
\* delete that passed its check and finds the ledger already removed by a
\* concurrent delete is answered with NotFound.
DeleteSucceedsOnce ==
    [][\A p \in Procs :
          /\ Commits(p, "delete") =>
                LedgerExists(proc[p].ledger) /\ ~LedgerExists(proc[p].ledger)'
          /\ (/\ proc[p].op = "delete" /\ InTx(p)
              /\ ~LedgerExists(proc[p].ledger)
              /\ proc'[p].pc = "done" /\ proc'[p].err # "aborted") =>
                 Code(proc'[p].err) = "NOT_FOUND"]_vars

====
